---------------------------- MODULE Spec2Model ----------------------------
(***************************************************************************)
(* Model of the concurrent indexing core of SMQTK:                         *)
(*   - compute_many_descriptors  (python/smqtk/compute_functions.py)       *)
(*   - compute_hash_codes        (python/smqtk/compute_functions.py)       *)
(*   - IqrController             (python/smqtk/iqr/iqr_controller.py)      *)
(* Each component has its own specification (SpecOrch, SpecHash, Spec);    *)
(* a specification leaves the variables of the other components alone.    *)
(***************************************************************************)
EXTENDS Integers, Sequences, FiniteSets, TLC

\* ------------------------------------------------------------------------
\* Bounds of the model
\* ------------------------------------------------------------------------
MaxItems == 3       \* longest input sequence of compute_many_descriptors
MaxUuids == 3       \* longest uuid sequence of compute_hash_codes
MaxOps   == 3       \* controller method calls in one run
MaxDepth == 1       \* nesting of user-level "with controller:" blocks

\* ------------------------------------------------------------------------
\* Python values
\* ------------------------------------------------------------------------
\* An optional argument: None is the empty tuple, a given value x is <<x>>.
None    == << >>
Some(x) == <<x>>

\* Python truthiness of an optional integer argument ("if x:" / "if not x:"):
\* None and 0 are false, every other integer is true.
Truthy(o) == o # None /\ o[1] # 0

RangeOf(s) == {s[i] : i \in DOMAIN s}

VARIABLES
    \* ---- compute_many_descriptors
    file_elements,   \* the input iterable, a sequence of file paths
    batch_size,      \* None or Some(int)
    orch_pc,         \* position of the generator function
    mode,            \* "batch" | "final" | "single": which copy of the pipeline runs
    pulled,          \* number of elements taken from file_elements so far
    dfe_deque,       \* the capture deque
    m,               \* keys of the generator's result mapping, in population order
    descr_index,     \* descriptors added to the DescriptorIndex
    yield_i,         \* position of the yielding for-loop in dfe_deque
    emitted,         \* pairs yielded so far
    counters,        \* [total, unique, batch_i], the logging counters
    compute_calls,   \* length of the batch handed to each compute_descriptor_async call
    \* ---- compute_hash_codes
    uuids,           \* the input uuid sequence
    use_mp,          \* use_multiprocessing flag
    functor,         \* which LSH functor is used
    supplied,        \* None, or Some(map) given by the caller as it was at call time
    caller_map,      \* the caller's dict object (mutated in place when supplied)
    fresh_map,       \* the dict object created at line 203
    hash2uuids_ref,  \* which dict object the local name hash2uuids refers to
    consumed,        \* indices of uuids in the order their results were consumed
    log_debug,       \* whether the logger's effective level includes DEBUG
    report_interval, \* report_interval argument, in seconds
    reports,         \* [periodic, final]: progress reports written so far
    hash_pc,         \* position of compute_hash_codes
    returned_ref,    \* which dict object was returned ("none" before return)
    run,             \* 1 in the first call of compute_hash_codes, 2 in a repeated one
    first_result,    \* the map the first call returned, as it was on return
    \* ---- IqrController
    iqr_sessions,    \* self._iqr_sessions
    map_rlock,       \* self._map_rlock: [owner, count]
    sess_lock,       \* owner of every IqrSession's own lock
    pc,              \* position of every thread
    call,            \* current call of every thread: [op, uuid, sess, ret, target]
    user_depth,      \* user-level "with controller:" nesting of every thread
    user_sess,       \* session whose lock a thread holds at user level
    next_uuid,       \* number of ids uuid.uuid1() has produced
    ops_left         \* controller method calls still allowed in this run

orchVars == <<file_elements, batch_size, orch_pc, mode, pulled, dfe_deque, m,
              descr_index, yield_i, emitted, counters, compute_calls>>
hashVars == <<uuids, use_mp, functor, supplied, caller_map, fresh_map,
              hash2uuids_ref, consumed, log_debug, report_interval, reports,
              hash_pc, returned_ref, run, first_result>>
ctrlVars == <<iqr_sessions, map_rlock, sess_lock, pc, call, user_depth,
              user_sess, next_uuid, ops_left>>
vars == <<orchVars, hashVars, ctrlVars>>


\* ------------------------------------------------------------------------
\* The state of each component right after construction / before its call.
\* ------------------------------------------------------------------------
OrchIdle ==
    /\ file_elements = << >> /\ batch_size = None /\ orch_pc = "idle"
    /\ mode = "batch" /\ pulled = 0 /\ dfe_deque = << >> /\ m = << >>
    /\ descr_index = << >> /\ yield_i = 1 /\ emitted = << >>
    /\ counters = [total |-> 0, unique |-> 0, batch_i |-> 0]
    /\ compute_calls = << >>

\* The empty dict
EmptyMap == [k \in {} |-> {}]

HashIdle ==
    /\ uuids = << >> /\ use_mp = FALSE /\ functor = "sign"
    /\ supplied = None /\ caller_map = EmptyMap /\ fresh_map = EmptyMap
    /\ hash2uuids_ref = "none" /\ consumed = << >> /\ hash_pc = "idle"
    /\ log_debug = FALSE /\ report_interval = 1
    /\ reports = [periodic |-> 0, final |-> 0]
    /\ returned_ref = "none"
    /\ run = 1 /\ first_result = EmptyMap

\* ========================================================================
\* compute_many_descriptors
\* ========================================================================
\* Input elements are DataFileElements, identified by their file path. Two
\* different files may hold the same content; the same file may be given twice.
Paths == {"p1", "p2", "p3"}

\* Content checksum of a file: p1 and p2 are content-identical.
ContentOf(p) == IF p = "p3" THEN "c2" ELSE "c1"

\* The DescriptorElement the generator produces for an element's content.
Descr(c) == <<"descr", c>>

Inputs == UNION {[1..n -> Paths] : n \in 0..MaxItems}

BatchSizes == {None} \cup {Some(b) : b \in (-1)..(MaxItems + 1)}

\* m[e]: the mapping is keyed by the element (hash and equality by content),
\* content-identical elements share one entry.
InMapping(e) == ContentOf(e) \in RangeOf(m)
MapGet(e)    == Descr(ContentOf(e))

\* Faulty variant of MapValues: only the first computed vector is handed on.
MapValuesFirstOnly == {Descr(m[i]) : i \in {1} \cap DOMAIN m}
\* m.itervalues()
MapValues == {Descr(c) : c \in RangeOf(m)}

OrchInit ==
    /\ file_elements \in Inputs
    /\ batch_size \in BatchSizes
    /\ orch_pc = "start"
    /\ mode = "batch" /\ pulled = 0 /\ dfe_deque = << >> /\ m = << >>
    /\ descr_index = << >> /\ yield_i = 1 /\ emitted = << >>
    /\ counters = [total |-> 0, unique |-> 0, batch_i |-> 0]
    /\ compute_calls = << >>

\* line 92: "if batch_size:"
UseBatches == Truthy(batch_size)

\* Faulty variant of BatchFull: the batch is started one element late.
BatchFullOffByOne(d) == Len(d) = batch_size[1] + 1
\* line 100: "if len(dfe_deque) == batch_size:" evaluated on the deque d
BatchFull(d) == Len(d) = batch_size[1]

\* Faulty variant of HasRemainder: the final partial batch is forgotten.
HasRemainderNever == FALSE
\* line 122: "if len(dfe_deque):"
HasRemainder == Len(dfe_deque) # 0

\* Faulty variant of YieldSeq: the loop walks the mapping (one element per
\* entry, in population order) instead of the deque.
YieldSeqByMapping ==
    [i \in 1..Len(m) |->
        dfe_deque[CHOOSE k \in 1..Len(dfe_deque) :
                     /\ ContentOf(dfe_deque[k]) = m[i]
                     /\ \A j \in 1..(k - 1) : ContentOf(dfe_deque[j]) # m[i]]]
\* lines 116, 138, 156: the sequence the yielding for-loop walks
YieldSeq == dfe_deque

\* lines 92-97 / 142-150: choose the pipeline
OrchStart ==
    /\ orch_pc = "start"
    /\ IF UseBatches
         THEN /\ orch_pc' = "pull" /\ mode' = "batch"
              /\ UNCHANGED compute_calls
         ELSE /\ orch_pc' = "compute" /\ mode' = "single"
              /\ compute_calls' = Append(compute_calls, 0)
    /\ UNCHANGED <<file_elements, batch_size, pulled, dfe_deque, m, descr_index,
                   yield_i, emitted, counters>>
    /\ UNCHANGED <<hashVars, ctrlVars>>

\* lines 97-107 with 87-90: take the next element, start a batch when full
BatchPull ==
    /\ orch_pc = "pull" /\ mode = "batch"
    /\ pulled < Len(file_elements)
    /\ LET d == Append(dfe_deque, file_elements[pulled + 1]) IN
        /\ dfe_deque' = d
        /\ pulled' = pulled + 1
        /\ IF BatchFull(d)
             THEN /\ orch_pc' = "compute"
                  /\ counters' = [counters EXCEPT !.batch_i = @ + 1,
                                                  !.total = @ + Len(d)]
                  /\ compute_calls' = Append(compute_calls, Len(d))
                  /\ m' = << >>
             ELSE /\ UNCHANGED <<orch_pc, counters, compute_calls, m>>
    /\ UNCHANGED <<file_elements, batch_size, mode, descr_index, yield_i, emitted>>
    /\ UNCHANGED <<hashVars, ctrlVars>>

\* lines 97, 122-129: input exhausted, final batch if anything is buffered
BatchExhausted ==
    /\ orch_pc = "pull" /\ mode = "batch"
    /\ pulled = Len(file_elements)
    /\ IF HasRemainder
         THEN /\ orch_pc' = "compute" /\ mode' = "final"
              /\ counters' = [counters EXCEPT !.total = @ + Len(dfe_deque)]
              /\ compute_calls' = Append(compute_calls, Len(dfe_deque))
              /\ m' = << >>
         ELSE /\ orch_pc' = "done"
              /\ UNCHANGED <<mode, counters, compute_calls, m>>
    /\ UNCHANGED <<file_elements, batch_size, pulled, dfe_deque, descr_index,
                   yield_i, emitted>>
    /\ UNCHANGED <<hashVars, ctrlVars>>

\* lines 147-150 with 87-90: in the single call the generator itself walks
\* iter_capture_elements(), which fills the deque
SinglePull ==
    /\ orch_pc = "compute" /\ mode = "single"
    /\ pulled < Len(file_elements)
    /\ dfe_deque' = Append(dfe_deque, file_elements[pulled + 1])
    /\ pulled' = pulled + 1
    /\ compute_calls' = [compute_calls EXCEPT ![Len(compute_calls)] = @ + 1]
    /\ UNCHANGED <<file_elements, batch_size, orch_pc, mode, m, descr_index,
                   yield_i, emitted, counters>>
    /\ UNCHANGED <<hashVars, ctrlVars>>

\* compute_descriptor_async at work: the descriptor of one more distinct
\* content is finished, in any order
ComputeOne ==
    /\ orch_pc = "compute"
    /\ \E c \in {ContentOf(e) : e \in RangeOf(dfe_deque)} \ RangeOf(m) :
           m' = Append(m, c)
    /\ UNCHANGED <<file_elements, batch_size, orch_pc, mode, pulled, dfe_deque,
                   descr_index, yield_i, emitted, counters, compute_calls>>
    /\ UNCHANGED <<hashVars, ctrlVars>>

\* lines 105-108, 127-130, 147-150: the call returns the mapping
ComputeReturn ==
    /\ orch_pc = "compute"
    /\ mode = "single" => pulled = Len(file_elements)
    /\ {ContentOf(e) : e \in RangeOf(dfe_deque)} = RangeOf(m)
    /\ orch_pc' = "insert"
    /\ counters' = IF mode = "single" THEN counters
                   ELSE [counters EXCEPT !.unique = @ + Len(m)]
    /\ UNCHANGED <<file_elements, batch_size, mode, pulled, dfe_deque, m,
                   descr_index, yield_i, emitted, compute_calls>>
    /\ UNCHANGED <<hashVars, ctrlVars>>

\* compute_descriptor_async raises: the error leaves the generator function
ComputeFail ==
    /\ orch_pc = "compute"
    /\ orch_pc' = "error"
    /\ UNCHANGED <<file_elements, batch_size, mode, pulled, dfe_deque, m,
                   descr_index, yield_i, emitted, counters, compute_calls>>
    /\ UNCHANGED <<hashVars, ctrlVars>>

\* Faulty variant of IndexInsert: the vectors are never handed to the index.
IndexInsertSkip ==
    /\ orch_pc = "insert"
    /\ orch_pc' = "yield"
    /\ yield_i' = 1
    /\ UNCHANGED <<file_elements, batch_size, mode, pulled, dfe_deque, m,
                   descr_index, emitted, counters, compute_calls>>
    /\ UNCHANGED <<hashVars, ctrlVars>>
\* lines 113, 135, 153: descr_index.add_many_descriptors(m.itervalues())
IndexInsert ==
    /\ orch_pc = "insert"
    /\ descr_index' = Append(descr_index, MapValues)
    /\ orch_pc' = "yield"
    /\ yield_i' = 1
    /\ UNCHANGED <<file_elements, batch_size, mode, pulled, dfe_deque, m,
                   emitted, counters, compute_calls>>
    /\ UNCHANGED <<hashVars, ctrlVars>>

\* add_many_descriptors raises
IndexInsertFail ==
    /\ orch_pc = "insert"
    /\ orch_pc' = "error"
    /\ UNCHANGED <<file_elements, batch_size, mode, pulled, dfe_deque, m,
                   descr_index, yield_i, emitted, counters, compute_calls>>
    /\ UNCHANGED <<hashVars, ctrlVars>>

\* lines 116-118, 138-140, 156-158: yield e._filepath, m[e]
YieldPair ==
    /\ orch_pc = "yield"
    /\ yield_i <= Len(YieldSeq)
    /\ LET e == YieldSeq[yield_i] IN
         IF InMapping(e)
           THEN /\ emitted' = Append(emitted, <<e, MapGet(e)>>)
                /\ yield_i' = yield_i + 1
                /\ UNCHANGED orch_pc
           ELSE /\ orch_pc' = "error"          \* KeyError from m[e]
                /\ UNCHANGED <<emitted, yield_i>>
    /\ UNCHANGED <<file_elements, batch_size, mode, pulled, dfe_deque, m,
                   descr_index, counters, compute_calls>>
    /\ UNCHANGED <<hashVars, ctrlVars>>

\* Faulty variant of YieldEnd: the buffer is not cleared after a batch.
YieldEndNoClear ==
    /\ orch_pc = "yield"
    /\ yield_i > Len(YieldSeq)
    /\ orch_pc' = IF mode = "batch" THEN "pull" ELSE "done"
    /\ UNCHANGED <<file_elements, batch_size, mode, pulled, dfe_deque, m,
                   descr_index, yield_i, emitted, counters, compute_calls>>
    /\ UNCHANGED <<hashVars, ctrlVars>>
\* line 120 (dfe_deque.clear(), back to the for-loop) or the end of the function
YieldEnd ==
    /\ orch_pc = "yield"
    /\ yield_i > Len(YieldSeq)
    /\ IF mode = "batch"
         THEN /\ dfe_deque' = << >> /\ orch_pc' = "pull"
         ELSE /\ orch_pc' = "done" /\ UNCHANGED dfe_deque
    /\ UNCHANGED <<file_elements, batch_size, mode, pulled, m, descr_index,
                   yield_i, emitted, counters, compute_calls>>
    /\ UNCHANGED <<hashVars, ctrlVars>>


\* ========================================================================
\* IqrController
\* ========================================================================
\* Threads that call the controller, and threads that work on sessions under
\* the sessions' own locks. The latter never call the controller while they
\* hold a session lock (the lock order is controller first, session second).
Callers  == {"t1", "t2"}
Holders  == {"t3"}
Threads  == Callers \cup Holders
NoThread == "nobody"

\* IqrSession objects; each owns a lock taken by its __enter__/__exit__.
Sessions  == {"s1", "s2"}
NoSession == "nosession"

\* Session ids are hashable values; here integers, 0 being a false one.
UserIDs == {0, 1}

\* The n-th value returned by uuid.uuid1(): distinct from every earlier one
\* and from the caller-chosen ids.
GenID(n) == 100 + n

Keys == UserIDs \cup {GenID(n) : n \in 1..MaxOps}

\* "k in self._iqr_sessions"
Registered(k) == iqr_sessions[k] # NoSession

NoRet  == [kind |-> "none", val |-> None]
NoCall == [op |-> "none", uuid |-> None, sess |-> NoSession, sid |-> None,
           target |-> NoSession, ret |-> NoRet]

\* lines 21-27: __init__
CtrlInit ==
    /\ iqr_sessions = [k \in Keys |-> NoSession]
    /\ map_rlock = [owner |-> NoThread, count |-> 0]
    /\ sess_lock = [s \in Sessions |-> NoThread]
    /\ pc = [t \in Threads |-> "idle"]
    /\ call = [t \in Threads |-> NoCall]
    /\ user_depth = [t \in Threads |-> 0]
    /\ user_sess = [t \in Threads |-> NoSession]
    /\ next_uuid = 0
    /\ ops_left = MaxOps

\* Ids a caller can pass: its own choices and ids add_session handed out.
KnownIDs == UserIDs \cup {GenID(n) : n \in 1..next_uuid}

\* Faulty variant of RLockFreeFor: the lock excludes nobody.
RLockFreeForAnyone(t) == TRUE
\* Faulty variant of RLockFreeFor: a plain lock, which its owner cannot take
\* a second time.
RLockNonReentrant(t) == map_rlock.owner = NoThread
\* multiprocessing.RLock.acquire() by t succeeds when the lock is free or
\* already owned by t
RLockFreeFor(t) == map_rlock.owner \in {NoThread, t}

RLockAcquired(t) == [owner |-> t, count |-> map_rlock.count + 1]
\* Faulty variant of RLockReleased: leaving the with-block keeps the lock.
RLockNotReleased == map_rlock
RLockReleased ==
    IF map_rlock.count = 1
      THEN [owner |-> NoThread, count |-> 0]
      ELSE [map_rlock EXCEPT !.count = @ - 1]

\* A thread calls one of the five methods
Call(t) ==
    /\ t \in Callers
    /\ pc[t] = "idle"
    /\ ops_left > 0
    /\ user_sess[t] = NoSession
    /\ \E c \in
          {[NoCall EXCEPT !.op = "session_uuids"]}
          \cup {[NoCall EXCEPT !.op = o, !.uuid = Some(i)] :
                   o \in {"has_session_uuid", "get_session", "remove_session"},
                   i \in KnownIDs}
          \cup {[NoCall EXCEPT !.op = "add_session", !.uuid = u, !.sess = s] :
                   u \in {None} \cup {Some(i) : i \in KnownIDs}, s \in Sessions} :
          call' = [call EXCEPT ![t] = c]
    /\ pc' = [pc EXCEPT ![t] = "acquire"]
    /\ ops_left' = ops_left - 1
    /\ UNCHANGED <<iqr_sessions, map_rlock, sess_lock, user_depth, user_sess,
                   next_uuid>>
    /\ UNCHANGED <<orchVars, hashVars>>

\* lines 44, 62, 79, 107, 120: "with self._map_rlock:" entered
Acquire(t) ==
    /\ pc[t] = "acquire"
    /\ RLockFreeFor(t)
    /\ map_rlock' = RLockAcquired(t)
    /\ pc' = [pc EXCEPT ![t] = "body"]
    /\ UNCHANGED <<iqr_sessions, sess_lock, call, user_depth, user_sess,
                   next_uuid, ops_left>>
    /\ UNCHANGED <<orchVars, hashVars>>

\* line 45: return tuple(self._iqr_sessions)
SessionUuids(t) ==
    /\ pc[t] = "body" /\ call[t].op = "session_uuids"
    /\ call' = [call EXCEPT ![t].ret =
                   [kind |-> "ok", val |-> {k \in Keys : Registered(k)}]]
    /\ pc' = [pc EXCEPT ![t] = "release"]
    /\ UNCHANGED <<iqr_sessions, map_rlock, sess_lock, user_depth, user_sess,
                   next_uuid, ops_left>>
    /\ UNCHANGED <<orchVars, hashVars>>

\* line 63: return session_uuid in self._iqr_sessions
HasSessionUuid(t) ==
    /\ pc[t] = "body" /\ call[t].op = "has_session_uuid"
    /\ call' = [call EXCEPT ![t].ret =
                   [kind |-> "ok", val |-> Registered(call[t].uuid[1])]]
    /\ pc' = [pc EXCEPT ![t] = "release"]
    /\ UNCHANGED <<iqr_sessions, map_rlock, sess_lock, user_depth, user_sess,
                   next_uuid, ops_left>>
    /\ UNCHANGED <<orchVars, hashVars>>

\* Faulty variant of AddCheck: lines 86-89 missing, a registered id is not
\* refused.
AddCheckNoRefusal(t) ==
    /\ pc[t] = "body" /\ call[t].op = "add_session"
    /\ IF ~Truthy(call[t].uuid)
         THEN /\ next_uuid' = next_uuid + 1
              /\ call' = [call EXCEPT ![t].sid = Some(GenID(next_uuid + 1))]
         ELSE /\ call' = [call EXCEPT ![t].sid = call[t].uuid]
              /\ UNCHANGED next_uuid
    /\ pc' = [pc EXCEPT ![t] = "add_insert"]
    /\ UNCHANGED <<iqr_sessions, map_rlock, sess_lock, user_depth, user_sess,
                   ops_left>>
    /\ UNCHANGED <<orchVars, hashVars>>
\* lines 80-89: choose the id; the id given is refused when it is registered
AddCheck(t) ==
    /\ pc[t] = "body" /\ call[t].op = "add_session"
    /\ IF ~Truthy(call[t].uuid)
         THEN \* lines 81-84: uuid1() and the assertion on it
              /\ next_uuid' = next_uuid + 1
              /\ IF Registered(GenID(next_uuid + 1))
                   THEN /\ call' = [call EXCEPT ![t].ret =
                                 [kind |-> "AssertionError", val |-> None]]
                        /\ pc' = [pc EXCEPT ![t] = "release"]
                   ELSE /\ call' = [call EXCEPT
                                 ![t].sid = Some(GenID(next_uuid + 1))]
                        /\ pc' = [pc EXCEPT ![t] = "add_insert"]
         ELSE \* lines 86-89
              /\ UNCHANGED next_uuid
              /\ IF Registered(call[t].uuid[1])
                   THEN /\ call' = [call EXCEPT ![t].ret =
                                 [kind |-> "RuntimeError", val |-> None]]
                        /\ pc' = [pc EXCEPT ![t] = "release"]
                   ELSE /\ call' = [call EXCEPT ![t].sid = call[t].uuid]
                        /\ pc' = [pc EXCEPT ![t] = "add_insert"]
    /\ UNCHANGED <<iqr_sessions, map_rlock, sess_lock, user_depth, user_sess,
                   ops_left>>
    /\ UNCHANGED <<orchVars, hashVars>>

\* lines 91-92: register and return the id
AddInsert(t) ==
    /\ pc[t] = "add_insert"
    /\ iqr_sessions' = [iqr_sessions EXCEPT ![call[t].sid[1]] = call[t].sess]
    /\ call' = [call EXCEPT ![t].ret = [kind |-> "ok", val |-> call[t].sid]]
    /\ pc' = [pc EXCEPT ![t] = "release"]
    /\ UNCHANGED <<map_rlock, sess_lock, user_depth, user_sess, next_uuid,
                   ops_left>>
    /\ UNCHANGED <<orchVars, hashVars>>

\* line 108: return self._iqr_sessions[session_uuid]
GetSession(t) ==
    /\ pc[t] = "body" /\ call[t].op = "get_session"
    /\ call' = [call EXCEPT ![t].ret =
                   IF Registered(call[t].uuid[1])
                     THEN [kind |-> "ok", val |-> iqr_sessions[call[t].uuid[1]]]
                     ELSE [kind |-> "KeyError", val |-> None]]
    /\ pc' = [pc EXCEPT ![t] = "release"]
    /\ UNCHANGED <<iqr_sessions, map_rlock, sess_lock, user_depth, user_sess,
                   next_uuid, ops_left>>
    /\ UNCHANGED <<orchVars, hashVars>>

\* IqrSession.__enter__ by t: the session's own lock is free (a thread
\* inside a controller method holds no session lock of its own)
SessionLockFreeFor(t, s) == sess_lock[s] \in {NoThread, t}

\* Faulty variant of RemoveLookup: the binding is deleted without the
\* session's lock being taken first.
RemoveLookupThenDelete(t) ==
    /\ pc[t] = "body" /\ call[t].op = "remove_session"
    /\ IF Registered(call[t].uuid[1])
         THEN /\ call' = [call EXCEPT ![t].target = iqr_sessions[call[t].uuid[1]]]
              /\ pc' = [pc EXCEPT ![t] = "rm_del"]
         ELSE /\ call' = [call EXCEPT ![t].ret =
                             [kind |-> "KeyError", val |-> None]]
              /\ pc' = [pc EXCEPT ![t] = "release"]
    /\ UNCHANGED <<iqr_sessions, map_rlock, sess_lock, user_depth, user_sess,
                   next_uuid, ops_left>>
    /\ UNCHANGED <<orchVars, hashVars>>
\* Faulty variant of RemoveLookup: the KeyError leaves the method without
\* the controller lock being released.
RemoveLookupLeak(t) ==
    /\ pc[t] = "body" /\ call[t].op = "remove_session"
    /\ IF Registered(call[t].uuid[1])
         THEN /\ call' = [call EXCEPT ![t].target = iqr_sessions[call[t].uuid[1]]]
              /\ pc' = [pc EXCEPT ![t] = "rm_enter"]
         ELSE /\ call' = [call EXCEPT ![t].ret =
                             [kind |-> "KeyError", val |-> None]]
              /\ pc' = [pc EXCEPT ![t] = "returned"]
    /\ UNCHANGED <<iqr_sessions, map_rlock, sess_lock, user_depth, user_sess,
                   next_uuid, ops_left>>
    /\ UNCHANGED <<orchVars, hashVars>>
\* line 121, the expression self._iqr_sessions[session_uuid]: KeyError, or
\* the session whose lock is to be taken next
RemoveLookup(t) ==
    /\ pc[t] = "body" /\ call[t].op = "remove_session"
    /\ IF Registered(call[t].uuid[1])
         THEN /\ call' = [call EXCEPT ![t].target = iqr_sessions[call[t].uuid[1]]]
              /\ pc' = [pc EXCEPT ![t] = "rm_enter"]
         ELSE /\ call' = [call EXCEPT ![t].ret =
                             [kind |-> "KeyError", val |-> None]]
              /\ pc' = [pc EXCEPT ![t] = "release"]
    /\ UNCHANGED <<iqr_sessions, map_rlock, sess_lock, user_depth, user_sess,
                   next_uuid, ops_left>>
    /\ UNCHANGED <<orchVars, hashVars>>

\* line 121: "with <session>:" entered, the session's lock is taken
RemoveEnter(t) ==
    /\ pc[t] = "rm_enter"
    /\ SessionLockFreeFor(t, call[t].target)
    /\ sess_lock' = [sess_lock EXCEPT ![call[t].target] = t]
    /\ pc' = [pc EXCEPT ![t] = "rm_del"]
    /\ UNCHANGED <<iqr_sessions, map_rlock, call, user_depth, user_sess,
                   next_uuid, ops_left>>
    /\ UNCHANGED <<orchVars, hashVars>>

\* Faulty variant of RemoveDel: the delete empties the whole registry.
RemoveDelAll(t) ==
    /\ pc[t] = "rm_del"
    /\ iqr_sessions' = [k \in Keys |-> NoSession]
    /\ pc' = [pc EXCEPT ![t] = "rm_exit"]
    /\ UNCHANGED <<map_rlock, sess_lock, call, user_depth, user_sess,
                   next_uuid, ops_left>>
    /\ UNCHANGED <<orchVars, hashVars>>
\* line 122: del self._iqr_sessions[session_uuid]
RemoveDel(t) ==
    /\ pc[t] = "rm_del"
    /\ iqr_sessions' = [iqr_sessions EXCEPT ![call[t].uuid[1]] = NoSession]
    /\ pc' = [pc EXCEPT ![t] = "rm_exit"]
    /\ UNCHANGED <<map_rlock, sess_lock, call, user_depth, user_sess,
                   next_uuid, ops_left>>
    /\ UNCHANGED <<orchVars, hashVars>>

\* Faulty variant of RemoveExit: the session's lock is kept after the delete.
RemoveExitLeak(t) ==
    /\ pc[t] = "rm_exit"
    /\ call' = [call EXCEPT ![t].ret = [kind |-> "ok", val |-> None]]
    /\ pc' = [pc EXCEPT ![t] = "release"]
    /\ UNCHANGED <<iqr_sessions, map_rlock, sess_lock, user_depth, user_sess,
                   next_uuid, ops_left>>
    /\ UNCHANGED <<orchVars, hashVars>>
\* line 121: the inner with-block is left, the session's lock is released
RemoveExit(t) ==
    /\ pc[t] = "rm_exit"
    /\ sess_lock' = [sess_lock EXCEPT ![call[t].target] = NoThread]
    /\ call' = [call EXCEPT ![t].ret = [kind |-> "ok", val |-> None]]
    /\ pc' = [pc EXCEPT ![t] = "release"]
    /\ UNCHANGED <<iqr_sessions, map_rlock, user_depth, user_sess, next_uuid,
                   ops_left>>
    /\ UNCHANGED <<orchVars, hashVars>>

\* lines 44, 62, 79, 107, 120: the with-block on self._map_rlock is left, by
\* return or by exception; the caller has the method's result
Release(t) ==
    /\ pc[t] = "release"
    /\ map_rlock' = RLockReleased
    /\ pc' = [pc EXCEPT ![t] = "returned"]
    /\ UNCHANGED <<iqr_sessions, sess_lock, call, user_depth, user_sess,
                   next_uuid, ops_left>>
    /\ UNCHANGED <<orchVars, hashVars>>

\* The caller goes on
Return(t) ==
    /\ pc[t] = "returned"
    /\ call' = [call EXCEPT ![t] = NoCall]
    /\ pc' = [pc EXCEPT ![t] = "idle"]
    /\ UNCHANGED <<iqr_sessions, map_rlock, sess_lock, user_depth, user_sess,
                   next_uuid, ops_left>>
    /\ UNCHANGED <<orchVars, hashVars>>

\* lines 29-31: __enter__ of a user-level "with controller:"
CtrlEnter(t) ==
    /\ t \in Callers
    /\ pc[t] = "idle"
    /\ user_depth[t] < MaxDepth
    /\ user_sess[t] = NoSession
    /\ RLockFreeFor(t)
    /\ map_rlock' = RLockAcquired(t)
    /\ user_depth' = [user_depth EXCEPT ![t] = @ + 1]
    /\ UNCHANGED <<iqr_sessions, sess_lock, pc, call, user_sess, next_uuid,
                   ops_left>>
    /\ UNCHANGED <<orchVars, hashVars>>

\* lines 33-34: __exit__ of a user-level "with controller:"
CtrlExit(t) ==
    /\ pc[t] = "idle"
    /\ user_depth[t] > 0
    /\ user_sess[t] = NoSession
    /\ map_rlock' = RLockReleased
    /\ user_depth' = [user_depth EXCEPT ![t] = @ - 1]
    /\ UNCHANGED <<iqr_sessions, sess_lock, pc, call, user_sess, next_uuid,
                   ops_left>>
    /\ UNCHANGED <<orchVars, hashVars>>

\* A thread working on a session takes the session's own lock ...
SessEnter(t, s) ==
    /\ t \in Holders
    /\ pc[t] = "idle"
    /\ user_sess[t] = NoSession
    /\ sess_lock[s] = NoThread
    /\ sess_lock' = [sess_lock EXCEPT ![s] = t]
    /\ user_sess' = [user_sess EXCEPT ![t] = s]
    /\ UNCHANGED <<iqr_sessions, map_rlock, pc, call, user_depth, next_uuid,
                   ops_left>>
    /\ UNCHANGED <<orchVars, hashVars>>

\* ... and releases it
SessExit(t) ==
    /\ pc[t] = "idle"
    /\ user_sess[t] # NoSession
    /\ sess_lock' = [sess_lock EXCEPT ![user_sess[t]] = NoThread]
    /\ user_sess' = [user_sess EXCEPT ![t] = NoSession]
    /\ UNCHANGED <<iqr_sessions, map_rlock, pc, call, user_depth, next_uuid,
                   ops_left>>
    /\ UNCHANGED <<orchVars, hashVars>>

\* ========================================================================
\* compute_hash_codes
\* ========================================================================
\* Descriptor uuids; "ux" has no descriptor in the index.
UuidSet == {"u1", "u2", "u3", "ux"}

\* index.get_descriptor(u).vector() for the uuids the index holds
Indexed == {"u1", "u2", "u3"}
VectorOf(u) ==
    CASE u = "u1" -> <<1, 1>>
      [] u = "u2" -> <<1, -1>>
      [] u = "u3" -> <<1, -1>>

\* functor.get_hash(v): a bit vector. "sign" takes the sign of every
\* component, "first" the sign of the first component only.
Functors == {"sign", "first"}
GetHashBits(f, v) ==
    IF f = "sign" THEN [i \in 1..Len(v) |-> IF v[i] > 0 THEN 1 ELSE 0]
                  ELSE <<IF v[1] > 0 THEN 1 ELSE 0>>

\* bit_utils.bit_vector_to_int_large: most significant bit first
RECURSIVE BitVectorToInt(_)
BitVectorToInt(bits) ==
    IF bits = << >> THEN 0
    ELSE 2 * BitVectorToInt(SubSeq(bits, 1, Len(bits) - 1)) + bits[Len(bits)]

\* lines 208-210: get_hash(u), defined for the uuids the index holds
HashOf(u) == BitVectorToInt(GetHashBits(functor, VectorOf(u)))

\* Maps a caller may hand in: empty, one with another uuid under a code the
\* run can produce, one with an input uuid under an unrelated code and a
\* key whose set is empty
SuppliedMaps ==
    { EmptyMap,
      (2 :> {"u0"}),
      (2 :> {"u2"}) @@ (5 :> {"u1"}) @@ (7 :> {}) }

UuidInputs == UNION {[1..n -> UuidSet] : n \in 0..MaxUuids}

HashInit ==
    /\ uuids \in UuidInputs
    /\ use_mp \in BOOLEAN
    /\ functor \in Functors
    /\ supplied \in {None} \cup {Some(d) : d \in SuppliedMaps}
    /\ caller_map = IF supplied = None THEN EmptyMap ELSE supplied[1]
    /\ fresh_map = EmptyMap
    /\ hash2uuids_ref = "none"
    /\ consumed = << >>
    /\ log_debug \in BOOLEAN
    /\ report_interval \in {0, 1}
    /\ reports = [periodic |-> 0, final |-> 0]
    /\ hash_pc = "start"
    /\ returned_ref = "none"
    /\ run = 1 /\ first_result = EmptyMap

\* Faulty variant of NewMapNeeded: "if not hash2uuids:", an empty map of
\* the caller is replaced by a new one.
NewMapIfFalsy == supplied = None \/ supplied[1] = EmptyMap
\* line 202: "if hash2uuids is None:"
NewMapNeeded == supplied = None

\* The dict the local name hash2uuids refers to
CurMap == IF hash2uuids_ref = "caller" THEN caller_map ELSE fresh_map

\* line 217: progress reporting is replaced by a no-op
ReportDisabled == ~log_debug \/ report_interval <= 0

\* Faulty variant of MapAdd: the set is created anew on every insert.
MapAddOverwrite(d, h, u) ==
    [k \in DOMAIN d \cup {h} |-> IF k = h THEN {u} ELSE d[k]]
\* Faulty variant of MapAdd: the uuid is added only when the set exists.
MapAddElse(d, h, u) ==
    IF h \notin DOMAIN d
      THEN d @@ (h :> {})
      ELSE [d EXCEPT ![h] = @ \cup {u}]
\* lines 229-231: insert uuid u under hash h into dict d
MapAdd(d, h, u) ==
    LET d1 == IF h \notin DOMAIN d THEN d @@ (h :> {}) ELSE d
    IN  [d1 EXCEPT ![h] = @ \cup {u}]

Pending == (1..Len(uuids)) \ RangeOf(consumed)

\* lines 202-225: set up the map and the report function, start the workers
HashStart ==
    /\ hash_pc = "start"
    /\ hash2uuids_ref' = IF NewMapNeeded THEN "fresh" ELSE "caller"
    /\ hash_pc' = "loop"
    /\ UNCHANGED <<uuids, use_mp, functor, supplied, caller_map, fresh_map,
                   consumed, log_debug, report_interval, reports, returned_ref,
                   run, first_result>>
    /\ UNCHANGED <<orchVars, ctrlVars>>

\* lines 226-234: the next completed result, of any pending uuid, is
\* consumed; report_progress writes a line when the interval has elapsed
HashConsume ==
    /\ hash_pc = "loop"
    /\ \E i \in Pending :
         /\ uuids[i] \in Indexed
         /\ consumed' = Append(consumed, i)
         /\ LET d == MapAdd(CurMap, HashOf(uuids[i]), uuids[i]) IN
              IF hash2uuids_ref = "caller"
                THEN caller_map' = d /\ UNCHANGED fresh_map
                ELSE fresh_map' = d /\ UNCHANGED caller_map
    /\ \E elapsed \in BOOLEAN :
         reports' = IF ~ReportDisabled /\ elapsed
                      THEN [reports EXCEPT !.periodic = 1]
                      ELSE reports
    /\ UNCHANGED <<uuids, use_mp, functor, supplied, hash2uuids_ref, log_debug,
                   report_interval, hash_pc, returned_ref, run, first_result>>
    /\ UNCHANGED <<orchVars, ctrlVars>>

\* lines 208-210, 226: get_hash raised for a pending uuid (no descriptor in
\* the index); the exception leaves compute_hash_codes
HashFail ==
    /\ hash_pc = "loop"
    /\ \E i \in Pending : uuids[i] \notin Indexed
    /\ hash_pc' = "error"
    /\ UNCHANGED <<uuids, use_mp, functor, supplied, caller_map, fresh_map,
                   hash2uuids_ref, consumed, log_debug, report_interval,
                   reports, returned_ref, run, first_result>>
    /\ UNCHANGED <<orchVars, ctrlVars>>

\* lines 236-240: final report and return
HashReturn ==
    /\ hash_pc = "loop"
    /\ Pending = {}
    /\ reports' = IF ReportDisabled THEN reports
                  ELSE [reports EXCEPT !.final = @ + 1]
    /\ returned_ref' = hash2uuids_ref
    /\ hash_pc' = "done"
    /\ UNCHANGED <<uuids, use_mp, functor, supplied, caller_map, fresh_map,
                   hash2uuids_ref, consumed, log_debug, report_interval, run,
                   first_result>>
    /\ UNCHANGED <<orchVars, ctrlVars>>

\* lines 161-162: the caller, having run the indexer into a new map, runs it
\* again with the same arguments: into another new map, or into the map the
\* first run returned
HashRerun ==
    /\ hash_pc = "done" /\ run = 1 /\ supplied = None
    /\ run' = 2
    /\ first_result' = fresh_map
    /\ \E extend \in BOOLEAN :
         /\ supplied' = IF extend THEN Some(fresh_map) ELSE None
         /\ caller_map' = IF extend THEN fresh_map ELSE EmptyMap
    /\ fresh_map' = EmptyMap
    /\ hash2uuids_ref' = "none"
    /\ consumed' = << >>
    /\ reports' = [periodic |-> 0, final |-> 0]
    /\ returned_ref' = "none"
    /\ hash_pc' = "start"
    /\ UNCHANGED <<uuids, use_mp, functor, log_debug, report_interval>>
    /\ UNCHANGED <<orchVars, ctrlVars>>

\* ========================================================================
\* Specifications
\* ========================================================================
InitOrch == OrchInit /\ HashIdle /\ CtrlInit

NextOrch ==
    \/ OrchStart
    \/ BatchPull
    \/ BatchExhausted
    \/ SinglePull
    \/ ComputeOne
    \/ ComputeReturn
    \/ ComputeFail
    \/ IndexInsert
    \/ IndexInsertFail
    \/ YieldPair
    \/ YieldEnd

SpecOrch == InitOrch /\ [][NextOrch]_vars

InitHash == OrchIdle /\ HashInit /\ CtrlInit

NextHash ==
    \/ HashStart
    \/ HashConsume
    \/ HashFail
    \/ HashReturn
    \/ HashRerun

SpecHash == InitHash /\ [][NextHash]_vars

Init == OrchIdle /\ HashIdle /\ CtrlInit

Next ==
    \E t \in Threads :
        \/ Call(t)
        \/ Acquire(t)
        \/ SessionUuids(t)
        \/ HasSessionUuid(t)
        \/ AddCheck(t)
        \/ AddInsert(t)
        \/ GetSession(t)
        \/ RemoveLookup(t)
        \/ RemoveEnter(t)
        \/ RemoveDel(t)
        \/ RemoveExit(t)
        \/ Release(t)
        \/ Return(t)
        \/ CtrlEnter(t)
        \/ CtrlExit(t)
        \/ \E s \in Sessions : SessEnter(t, s)
        \/ SessExit(t)

Spec == Init /\ [][Next]_vars


\* The steps a thread makes inside a method once it has the lock, up to
\* handing the result to its caller
MethodStep(t) ==
    \/ SessionUuids(t)
    \/ HasSessionUuid(t)
    \/ AddCheck(t)
    \/ AddInsert(t)
    \/ GetSession(t)
    \/ RemoveLookup(t)
    \/ RemoveDel(t)
    \/ RemoveExit(t)
    \/ Release(t)
    \/ Return(t)

\* lines 33-34: __exit__ of the outermost "with controller:" block of t
CtrlExitOutermost(t) == CtrlExit(t) /\ user_depth'[t] = 0

\* The steps a thread makes without choosing to: taking a lock it waits for,
\* the code of the method it is inside, and leaving its outermost
\* "with controller:" block. They exclude one another by the thread's
\* position.
ThreadStep(t) ==
    Acquire(t) \/ RemoveEnter(t) \/ MethodStep(t) \/ CtrlExitOutermost(t)

\* Scheduling: a running thread keeps running (method code, leaving a
\* with-block, leaving a session after a finite time); a thread does not stay
\* inside "with controller:" blocks for ever; a thread waiting for a lock
\* gets it if the lock is free again and again. Nothing obliges a thread to
\* start a call or to enter a with-block.
Fairness ==
    /\ \A t \in Callers : SF_vars(ThreadStep(t)) /\ WF_vars(CtrlExit(t))
    /\ \A t \in Holders : WF_vars(SessExit(t))

SpecLive == Init /\ [][Next]_vars /\ Fairness


\* ========================================================================
\* Properties: compute_many_descriptors (under SpecOrch)
\* ========================================================================
EmittedIds == [i \in 1..Len(emitted) |-> emitted[i][1]]

\* C1: at every moment the identifiers emitted so far are a prefix of the
\* input identifier sequence, whatever the batch size and the order in
\* which the generator's mapping was populated; at completion they are the
\* whole input sequence.
C1_EmissionIsInputPrefix ==
    /\ Len(emitted) <= Len(file_elements)
    /\ \A i \in 1..Len(emitted) : EmittedIds[i] = file_elements[i]
    /\ orch_pc = "done" => Len(emitted) = Len(file_elements)

\* A batched run has completed whose final batch of at least two elements
\* was answered by a mapping populated in another order than the elements
\* were given.
C1_Witness ==
    /\ orch_pc = "done" /\ mode = "final"
    /\ Len(emitted) = Len(file_elements)
    /\ Len(dfe_deque) >= 2 /\ Len(m) = 2
    /\ m[1] # ContentOf(dfe_deque[1])

\* C2: a completed run has yielded exactly one pair per input element, the
\* pair of the i-th element being (its identifier, the mapping's descriptor
\* for it), also when content-identical elements share one mapping entry;
\* an empty input yields nothing.
C2_OnePairPerItem ==
    /\ orch_pc = "done" =>
         /\ Len(emitted) = Len(file_elements)
         /\ \A i \in 1..Len(file_elements) :
              emitted[i] = <<file_elements[i], Descr(ContentOf(file_elements[i]))>>
    /\ file_elements = << >> => emitted = << >>

\* A run has completed whose last batch held two different files of the
\* same content, which the generator answered with a single mapping entry.
C2_Witness ==
    /\ orch_pc = "done"
    /\ Len(dfe_deque) = 2 /\ Len(m) = 1
    /\ dfe_deque[1] # dfe_deque[2]
    /\ Len(emitted) = Len(file_elements)

\* ========================================================================
\* Properties: IqrController (under Spec)
\* ========================================================================
\* Number of times t holds self._map_rlock
HoldCount(t) == IF map_rlock.owner = t THEN map_rlock.count ELSE 0

\* C3: when the only two calls made so far are add_session calls of two
\* threads with the same given id, and both have returned, exactly one has
\* returned the id and the other has raised the duplicate-id RuntimeError,
\* and the id is bound to the session of the call that succeeded.
C3_ExactlyOneAddSucceeds ==
    \A a \in Callers, b \in Callers :
        ( /\ a # b
          /\ ops_left = MaxOps - 2
          /\ pc[a] = "returned" /\ pc[b] = "returned"
          /\ call[a].op = "add_session" /\ call[b].op = "add_session"
          /\ call[a].uuid # None /\ call[a].uuid = call[b].uuid )
        => \E w \in {a, b}, l \in {a, b} :
             /\ w # l
             /\ call[w].ret.kind = "ok"
             /\ call[l].ret.kind = "RuntimeError"
             /\ iqr_sessions[call[w].uuid[1]] = call[w].sess

\* C4: a binding leaves the registry only in a step of a thread that is in
\* remove_session of that id and holds both the controller lock and the
\* lock of the session bound to it; a remover that has looked its session
\* up and does not yet hold the session's lock leaves the binding in place;
\* when remove_session returns normally the id is not registered.
C4_StatePart ==
    \A t \in Callers :
        /\ pc[t] = "rm_enter" =>
             /\ map_rlock.owner = t
             /\ iqr_sessions[call[t].uuid[1]] = call[t].target
        /\ pc[t] \in {"rm_del", "rm_exit"} =>
             /\ map_rlock.owner = t
             /\ sess_lock[call[t].target] = t
        /\ (pc[t] = "release" /\ call[t].op = "remove_session"
              /\ call[t].ret.kind = "ok") => ~Registered(call[t].uuid[1])
C4_StepPart ==
    /\ \A k \in Keys :
         (Registered(k) /\ iqr_sessions'[k] = NoSession) =>
            \E t \in Callers :
               /\ pc[t] = "rm_del" /\ call[t].uuid = Some(k)
               /\ map_rlock.owner = t
               /\ sess_lock[iqr_sessions[k]] = t
               /\ sess_lock'[iqr_sessions[k]] = t
    /\ \A t \in Callers :
         ( /\ call[t].op = "remove_session" /\ call[t].ret.kind = "ok"
           /\ pc[t] = "release" /\ pc'[t] = "returned" )
         => iqr_sessions'[call[t].uuid[1]] = NoSession
C4_RemoveUnderSessionLock == [](C4_StatePart) /\ [][C4_StepPart]_vars

\* remove_session waits for the lock of its session, which a thread working
\* on that session holds; the id is still registered.
C4_Witness ==
    \E t \in Callers :
        /\ pc[t] = "rm_enter"
        /\ sess_lock[call[t].target] \in Holders
        /\ Registered(call[t].uuid[1])

\* C5: add_session called with an id that is registered raises the
\* duplicate-id RuntimeError, and from that decision until the method
\* returns the registry stays exactly as it was.
DuplicateAdd(t) ==
    /\ call[t].op = "add_session"
    /\ call[t].uuid # None
    /\ Registered(call[t].uuid[1])
C5_StepPart ==
    \A t \in Callers :
        /\ (pc[t] = "body" /\ DuplicateAdd(t) /\ pc'[t] # "body") =>
              /\ pc'[t] = "release"
              /\ call'[t].ret.kind = "RuntimeError"
        /\ ( \/ pc[t] = "body" /\ DuplicateAdd(t)
             \/ pc[t] = "release" /\ call[t].ret.kind = "RuntimeError" ) =>
              iqr_sessions' = iqr_sessions
C5_DuplicateAddRefused == [][C5_StepPart]_vars

\* add_session has refused an id that is bound to another session than the
\* one it was given; the binding is still the old one.
C5_Witness ==
    \E t \in Callers :
        /\ pc[t] = "returned" /\ call[t].op = "add_session"
        /\ call[t].ret.kind = "RuntimeError"
        /\ Registered(call[t].uuid[1])
        /\ iqr_sessions[call[t].uuid[1]] # call[t].sess

\* C6: add_session called with an id that is not registered registers the
\* session under that id and returns it; an id is generated only when none
\* was given; the value returned is the key the session was registered under.
C6_GivenIdIsUsed ==
    \A t \in Callers :
        (pc[t] = "release" /\ call[t].op = "add_session") =>
           /\ call[t].uuid # None =>
                \/ call[t].ret.kind = "RuntimeError"
                \/ /\ call[t].ret.kind = "ok"
                   /\ call[t].ret.val = call[t].uuid
                   /\ iqr_sessions[call[t].uuid[1]] = call[t].sess
           /\ call[t].ret.kind = "ok" =>
                iqr_sessions[call[t].ret.val[1]] = call[t].sess

\* C7: get_session and remove_session called with an id that is not
\* registered raise KeyError, change neither the registry nor any session
\* lock, and have released the controller lock when the error reaches the
\* caller: the caller holds it as often as before the call.
UnknownIdCall(t) ==
    /\ call[t].op \in {"get_session", "remove_session"}
    /\ ~Registered(call[t].uuid[1])
C7_StepPart ==
    \A t \in Callers :
        /\ (pc[t] = "body" /\ UnknownIdCall(t) /\ pc'[t] # "body") =>
              /\ call'[t].ret.kind = "KeyError"
              /\ pc'[t] \in {"release", "returned"}
        /\ ( \/ pc[t] = "body" /\ UnknownIdCall(t)
             \/ pc[t] = "release" /\ call[t].ret.kind = "KeyError" ) =>
              /\ iqr_sessions' = iqr_sessions
              /\ \A s \in Sessions : sess_lock'[s] = t <=> sess_lock[s] = t
C7_StatePart ==
    \A t \in Callers :
        (pc[t] = "returned" /\ call[t].ret.kind = "KeyError") =>
           /\ HoldCount(t) = user_depth[t]
           /\ \A s \in Sessions : sess_lock[s] # t
C7_UnknownIdFailsCleanly == [](C7_StatePart) /\ [][C7_StepPart]_vars

\* remove_session, called inside a user-level "with controller:" block, has
\* raised KeyError; the caller holds the controller lock once, as before.
C7_Witness ==
    \E t \in Callers :
        /\ pc[t] = "returned" /\ call[t].op = "remove_session"
        /\ call[t].ret.kind = "KeyError"
        /\ user_depth[t] = 1 /\ HoldCount(t) = 1

\* ========================================================================
\* Properties: compute_hash_codes (under SpecHash)
\* ========================================================================
InputUuids == RangeOf(uuids)

\* The map the run started from
InitialMap == IF supplied = None THEN EmptyMap ELSE supplied[1]

\* The inverted index of the input, stated without reference to any order:
\* under every hash code, what was there before and the input uuids that
\* hash to it
ExpectedIndex ==
    [h \in DOMAIN InitialMap \cup {HashOf(u) : u \in InputUuids} |->
        (IF h \in DOMAIN InitialMap THEN InitialMap[h] ELSE {})
        \cup {u \in InputUuids : HashOf(u) = h}]

\* The (hash code, uuid) memberships of a map
Memberships(d) == UNION {{<<h, u>> : u \in d[h]} : h \in DOMAIN d}

\* C8: the map of a completed run depends only on the functor, the vectors,
\* the uuids and the map it started from: it is the same for every order in
\* which the results were consumed and for both values of use_mp.
C8_ResultIndependentOfOrder ==
    hash_pc = "done" => CurMap = ExpectedIndex

\* A multiprocessing run over three uuids has completed whose results were
\* consumed in the reverse of the input order and fell under two hash codes.
C8_Witness ==
    /\ hash_pc = "done" /\ use_mp
    /\ Len(uuids) = 3 /\ consumed = <<3, 2, 1>>
    /\ Cardinality(InputUuids) = 3
    /\ Cardinality(DOMAIN CurMap) = 2

\* C9: after a completed run into a new map, every input uuid is a member of
\* the set under the hash code of its vector and of no other set, no set is
\* empty, every member is an input uuid, and there are as many memberships
\* as distinct input uuids.
C9_OneSetPerUuid ==
    (hash_pc = "done" /\ supplied = None) =>
       /\ returned_ref = "fresh"
       /\ \A u \in InputUuids : \A h \in DOMAIN fresh_map :
             u \in fresh_map[h] <=> h = HashOf(u)
       /\ \A u \in InputUuids : HashOf(u) \in DOMAIN fresh_map
       /\ \A h \in DOMAIN fresh_map :
             fresh_map[h] # {} /\ fresh_map[h] \subseteq InputUuids
       /\ Cardinality(Memberships(fresh_map)) = Cardinality(InputUuids)

\* A run into a new map has completed whose input named one uuid twice and
\* held two uuids of the same hash code; they share one set.
C9_Witness ==
    /\ hash_pc = "done" /\ supplied = None
    /\ Len(uuids) > Cardinality(InputUuids)
    /\ \E h \in DOMAIN fresh_map : Cardinality(fresh_map[h]) = 2

\* C10: when the caller hands a map in, the run works on that very map and
\* returns it; every membership the map had before the run is there at
\* every step, and no step of a run removes a member or a key from the map.
C10_StatePart ==
    supplied # None =>
       /\ hash2uuids_ref \in {"none", "caller"}
       /\ \A h \in DOMAIN supplied[1] :
             h \in DOMAIN caller_map /\ supplied[1][h] \subseteq caller_map[h]
       /\ hash_pc = "done" => returned_ref = "caller"
C10_StepPart ==
    run' = run =>
       /\ \A h \in DOMAIN caller_map :
             h \in DOMAIN caller_map' /\ caller_map[h] \subseteq caller_map'[h]
       /\ \A h \in DOMAIN fresh_map :
             h \in DOMAIN fresh_map' /\ fresh_map[h] \subseteq fresh_map'[h]
C10_SuppliedMapOnlyGrows == [](C10_StatePart) /\ [][C10_StepPart]_vars

\* A run into a non-empty map of the caller has completed, has added to that
\* map and has returned it.
C10_Witness ==
    /\ hash_pc = "done" /\ supplied # None
    /\ supplied[1] # EmptyMap
    /\ caller_map # supplied[1]
    /\ returned_ref = "caller"

\* Key-wise union of two maps
MergeMaps(a, b) ==
    [h \in DOMAIN a \cup DOMAIN b |->
        (IF h \in DOMAIN a THEN a[h] ELSE {})
        \cup (IF h \in DOMAIN b THEN b[h] ELSE {})]

\* C11: when the indexer is run a second time with the same inputs, a second
\* run into another new map gives a map whose key-wise union with the first
\* run's map is the map of one run; a second run into the map the first run
\* returned leaves that map as it was, and returns it.
C11_RerunIsIdempotent ==
    (hash_pc = "done" /\ run = 2) =>
       IF supplied = None
         THEN /\ MergeMaps(first_result, fresh_map) = first_result
              /\ MergeMaps(first_result, fresh_map) = fresh_map
         ELSE /\ caller_map = first_result
              /\ returned_ref = "caller"

\* A second run into the map of the first has completed; the map holds
\* two hash codes, one of them shared by two uuids, and the second run
\* consumed its results last-first.
C11_Witness ==
    /\ hash_pc = "done" /\ run = 2 /\ supplied # None
    /\ Len(uuids) = 3 /\ consumed = <<3, 2, 1>>
    /\ Cardinality(DOMAIN caller_map) = 2
    /\ \E h \in DOMAIN caller_map : Cardinality(caller_map[h]) = 2

RECURSIVE SumSeq(_)
SumSeq(s) == IF s = << >> THEN 0 ELSE Head(s) + SumSeq(Tail(s))

IsPrefix(s, t) == Len(s) <= Len(t) /\ SubSeq(t, 1, Len(s)) = s

\* The pair the generator owes for the i-th input item
PairOf(i) == <<file_elements[i], Descr(ContentOf(file_elements[i]))>>

\* C12: when the compute call or the insert call of batch k fails, the
\* generator is left with the error and does nothing more; the pairs emitted
\* are exactly those of the batches before k, in input order, the index has
\* received exactly the inserts of those batches with the vectors of every
\* emitted pair, and no step ever takes back an emitted pair or an insert.
C12_StatePart ==
    orch_pc = "error" =>
       LET k == Len(compute_calls) IN
         /\ k >= 1
         /\ Len(emitted) = SumSeq(SubSeq(compute_calls, 1, k - 1))
         /\ \A i \in 1..Len(emitted) :
               /\ emitted[i] = PairOf(i)
               /\ emitted[i][2] \in UNION RangeOf(descr_index)
         /\ Len(descr_index) = k - 1
C12_StepPart ==
    /\ IsPrefix(emitted, emitted')
    /\ IsPrefix(descr_index, descr_index')
    /\ orch_pc = "error" => UNCHANGED orchVars
C12_FailureKeepsEarlierBatches == [](C12_StatePart) /\ [][C12_StepPart]_vars

\* The third batch of a run with batches of one item has failed after its
\* compute call had produced a vector; the two earlier batches are emitted.
C12_Witness ==
    /\ orch_pc = "error" /\ mode = "batch"
    /\ Len(compute_calls) = 3 /\ Len(emitted) = 2 /\ Len(m) = 1

\* The batch sizes owed for n items and batch size b > 0
ExpectedCalls(n, b) ==
    [i \in 1..((n + b - 1) \div b) |-> IF i * b <= n THEN b ELSE n % b]

\* C13: with a batch size b > 0 the compute calls made so far are the first
\* of the ceil(N/b) owed calls (sizes b, ..., b and then N mod b if that is
\* not zero), each call is given the next consecutive slice of the input and
\* never an empty one, and a finished run has made all of them; with no batch
\* size a finished run has made exactly one call, on the whole input.
C13_BatchSizes ==
    /\ (batch_size # None /\ batch_size[1] > 0) =>
         LET n == Len(file_elements)
             b == batch_size[1] IN
           /\ IsPrefix(compute_calls, ExpectedCalls(n, b))
           /\ \A i \in 1..Len(compute_calls) : compute_calls[i] > 0
           /\ orch_pc = "done" => compute_calls = ExpectedCalls(n, b)
           /\ orch_pc \in {"compute", "insert", "yield"} =>
                /\ Len(dfe_deque) = compute_calls[Len(compute_calls)]
                /\ pulled = SumSeq(compute_calls)
                /\ dfe_deque = SubSeq(file_elements,
                                      pulled - Len(dfe_deque) + 1, pulled)
    /\ batch_size = None =>
         /\ Len(compute_calls) <= 1
         /\ orch_pc \in {"insert", "yield", "done"} =>
              /\ compute_calls = <<Len(file_elements)>>
              /\ dfe_deque = file_elements

\* Three items with batch size two have been processed to the end: a batch
\* of two and a final batch of one.
C13_Witness ==
    /\ orch_pc = "done" /\ batch_size = Some(2)
    /\ Len(file_elements) = 3 /\ compute_calls = <<2, 1>>

\* C18: the index has received one insert for every finished compute call and
\* none for the call in progress; the insert of a batch carries every vector
\* of that batch's mapping; pairs are emitted only after the insert of their
\* batch has returned, so the vector of every emitted pair is in the index.
C18_StatePart ==
    /\ Len(descr_index) <= Len(compute_calls)
    /\ Len(compute_calls) <= Len(descr_index) + 1
    /\ orch_pc \in {"compute", "insert"} =>
          /\ Len(descr_index) = Len(compute_calls) - 1
          /\ Len(emitted) = SumSeq(SubSeq(compute_calls, 1, Len(descr_index)))
    /\ orch_pc \in {"yield", "pull", "done"} =>
          Len(descr_index) = Len(compute_calls)
    /\ orch_pc = "yield" =>
          descr_index[Len(descr_index)]
             = {Descr(ContentOf(e)) : e \in RangeOf(dfe_deque)}
    /\ \A i \in 1..Len(emitted) :
          emitted[i][2] \in UNION RangeOf(descr_index)
C18_StepPart ==
    emitted' # emitted =>
       /\ orch_pc = "yield"
       /\ descr_index' = descr_index
       /\ emitted'[Len(emitted')][2] \in descr_index[Len(descr_index)]
C18_InsertBeforeYield == [](C18_StatePart) /\ [][C18_StepPart]_vars

\* A batch of two items with different contents has been inserted with its
\* two vectors and emitted, and the final batch has been inserted and its
\* pair emitted.
C18_Witness ==
    /\ orch_pc = "yield" /\ mode = "final" /\ yield_i = 2
    /\ Len(descr_index) = 2 /\ Len(emitted) = 3
    /\ Cardinality(descr_index[1]) = 2

\* C19: with a batch size b > 0 the items pulled from the input are never
\* more than b ahead of the pairs emitted, and an item is pulled only when
\* every item pulled before the buffered ones has had its pair emitted; with
\* no batch size nothing is emitted before the whole input has been pulled.
C19_StatePart ==
    /\ (batch_size # None /\ batch_size[1] > 0) =>
          /\ pulled - Len(emitted) <= batch_size[1]
          /\ orch_pc = "pull" => Len(emitted) = pulled - Len(dfe_deque)
    /\ batch_size = None =>
          (Len(emitted) > 0 => pulled = Len(file_elements))
C19_StepPart ==
    (batch_size # None /\ batch_size[1] > 0 /\ pulled' # pulled) =>
        /\ pulled' = pulled + 1
        /\ Len(dfe_deque) < batch_size[1]
        /\ Len(emitted) = pulled - Len(dfe_deque)
C19_Streaming == [](C19_StatePart) /\ [][C19_StepPart]_vars

\* With batch size one, the pair of the first item has been emitted and the
\* second item is pulled while the third is still in the input.
C19_Witness ==
    /\ batch_size = Some(1) /\ Len(file_elements) = 3
    /\ pulled = 2 /\ Len(emitted) = 1 /\ orch_pc = "compute"

\* C20: when a run that extends a map of the caller fails (the vector lookup
\* or the functor raises for some uuid), no map is returned and the map of
\* the caller holds exactly the memberships it held before the run.
C20_FailureLeavesSuppliedMap ==
    (hash_pc = "error" /\ supplied # None) =>
        /\ returned_ref = "none"
        /\ caller_map = supplied[1]

\* Thread t is inside the "with self._map_rlock:" block of a method
InMethod(t) ==
    pc[t] \in {"body", "add_insert", "rm_enter", "rm_del", "rm_exit", "release"}

TakingSnapshot(t) == call[t].op = "session_uuids" /\ InMethod(t)

\* C14: from the moment session_uuids holds the lock until it lets go, no
\* other thread is inside any method and no step changes the registry; the
\* value it is about to return is the set of ids registered at that time,
\* whatever add_session and remove_session calls are under way.
C14_StatePart ==
    \A t \in Callers :
       TakingSnapshot(t) =>
          /\ map_rlock.owner = t
          /\ \A o \in Threads \ {t} : ~InMethod(o)
          /\ pc[t] = "release" =>
                call[t].ret = [kind |-> "ok",
                               val |-> {k \in Keys : Registered(k)}]
C14_StepPart ==
    \A t \in Callers :
       (TakingSnapshot(t) /\ iqr_sessions' # iqr_sessions) => FALSE
C14_SnapshotIsAtomic == [](C14_StatePart) /\ [][C14_StepPart]_vars

\* session_uuids has read a registry of one id and still holds the lock,
\* while the other caller has a remove_session of that id under way.
C14_Witness ==
    \E t \in Callers, o \in Callers :
       /\ o # t
       /\ call[t].op = "session_uuids" /\ pc[t] = "release"
       /\ call[t].ret.val # {}
       /\ call[o].op = "remove_session" /\ pc[o] = "acquire"
       /\ call[o].uuid[1] \in call[t].ret.val

\* Acquisitions of self._map_rlock that t has made and not yet undone: its
\* open "with controller:" blocks and the method it is inside, if any
OpenAcquisitions(t) == user_depth[t] + (IF InMethod(t) THEN 1 ELSE 0)

\* C15: a thread inside one or more "with controller:" blocks owns the lock
\* until it has left the outermost one; a method it calls meanwhile always
\* gets the lock (the thread never waits for itself), the hold count equals
\* the acquisitions not yet undone, the lock is free once all are undone, and
\* as long as the thread is inside a block no other thread is inside any of
\* the five methods.
C15_ReentrantLock ==
    /\ map_rlock.owner = NoThread <=> map_rlock.count = 0
    /\ \A t \in Threads :
          /\ HoldCount(t) = OpenAcquisitions(t)
          /\ user_depth[t] > 0 =>
                /\ map_rlock.owner = t
                /\ pc[t] = "acquire" => RLockFreeFor(t)
                /\ \A o \in Threads \ {t} : ~InMethod(o) /\ user_depth[o] = 0

\* A thread inside a "with controller:" block is inside a method it called
\* there, holding the lock twice, while the other caller has a call waiting.
C15_Witness ==
    \E t \in Callers, o \in Callers :
       /\ o # t
       /\ user_depth[t] = 1 /\ pc[t] = "body"
       /\ map_rlock = [owner |-> t, count |-> 2]
       /\ pc[o] = "acquire"

\* A step of some thread other than starting a call or taking a lock for a
\* with-block of its own
Progress ==
    \E t \in Threads :
       Acquire(t) \/ MethodStep(t) \/ RemoveEnter(t) \/ CtrlExit(t) \/ SessExit(t)

\* C16 (order): a calling thread owns a session's lock only inside
\* remove_session, between its inner with-block's entry and exit, and owns
\* the controller lock all that time; it waits for a session's lock only
\* while owning the controller lock; a thread working on a session never
\* waits for the controller lock.
C16_LockOrder ==
    /\ \A t \in Callers :
          /\ pc[t] \in {"rm_enter", "rm_del", "rm_exit"} => map_rlock.owner = t
          /\ \A s \in Sessions :
                sess_lock[s] = t <=>
                   (pc[t] \in {"rm_del", "rm_exit"} /\ call[t].target = s)
    /\ \A t \in Holders : pc[t] = "idle" /\ user_depth[t] = 0

\* C16 (no deadlock): whenever a call is under way or a lock is held, some
\* thread can make a step.
C16_NoDeadlock ==
    ( \/ \E t \in Threads : pc[t] # "idle"
      \/ map_rlock.owner # NoThread
      \/ \E s \in Sessions : sess_lock[s] # NoThread )
    => ENABLED Progress

\* C16 (progress): every call that has been started returns.
C16_EveryCallReturns ==
    \A t \in Callers : (pc[t] = "acquire") ~> (pc[t] = "returned")

MapOnlyOps == {"session_uuids", "has_session_uuid", "add_session", "get_session"}

\* Thread t has called one of the four and cannot get the controller lock
WaitsForController(t) ==
    pc[t] = "acquire" /\ call[t].op \in MapOnlyOps /\ ~RLockFreeFor(t)

\* Thread o is inside remove_session, stopped at the lock of the target
\* session, which another thread holds
StoppedAtSessionLock(o) ==
    pc[o] = "rm_enter" /\ sess_lock[call[o].target] \notin {NoThread, o}

\* C17 (as claimed): a call of session_uuids, has_session_uuid, add_session
\* or get_session is never kept waiting by a holder of a session's lock: the
\* owner of the controller lock it waits for is never a remove_session that
\* is itself stopped at a session lock held by a third thread.
C17_NeverWaitsForSessionLock ==
    \A t \in Callers :
       WaitsForController(t) => ~StoppedAtSessionLock(map_rlock.owner)

\* C17 (amended): a call of one of the four methods takes no session lock and
\* waits only while another thread owns the controller lock, inside a method
\* or a "with controller:" block; when that owner is a remove_session stopped
\* at a session's lock, the lock is held by a thread working on that session,
\* and the call stays waiting until that thread leaves the session.
C17_StatePart ==
    \A t \in Callers :
       /\ call[t].op \in MapOnlyOps =>
             /\ pc[t] \notin {"rm_enter", "rm_del", "rm_exit"}
             /\ \A s \in Sessions : sess_lock[s] # t
       /\ WaitsForController(t) =>
             LET o == map_rlock.owner IN
               /\ o \in Callers \ {t}
               /\ InMethod(o) \/ user_depth[o] > 0
               /\ StoppedAtSessionLock(o) =>
                     LET h == sess_lock[call[o].target] IN
                       /\ h \in Holders
                       /\ user_sess[h] = call[o].target
                       /\ ~ENABLED Acquire(t)
                       /\ ~ENABLED RemoveEnter(o)
                       /\ ENABLED SessExit(h)
C17_StepPart ==
    \A t \in Callers :
       (WaitsForController(t) /\ StoppedAtSessionLock(map_rlock.owner)
          /\ sess_lock' = sess_lock)
       => (pc'[t] = "acquire" /\ map_rlock' = map_rlock)
C17_WaitsWhileControllerLockOwned == [](C17_StatePart) /\ [][C17_StepPart]_vars

\* get_session waits for the controller lock, whose owner is a
\* remove_session stopped at the lock of a session that a thread working on
\* the session holds.
C17_Witness ==
    \E t \in Callers :
       /\ WaitsForController(t) /\ call[t].op = "get_session"
       /\ StoppedAtSessionLock(map_rlock.owner)
       /\ sess_lock[call[map_rlock.owner].target] \in Holders

\* C21: every run that has completed has written its final progress report,
\* whatever the report interval and the log level; a periodic report has
\* been written only in a run with a positive interval and debug logging.
C21_FinalReportAlways ==
    /\ hash_pc = "done" => reports.final = 1
    /\ reports.periodic > 0 => (log_debug /\ report_interval > 0)

\* The ids whose binding a step changes
ChangedKeys == {k \in Keys : iqr_sessions'[k] # iqr_sessions[k]}

\* The step is the insert of an add_session of t that returns id k
AddsBinding(t, k) ==
    /\ call[t].op = "add_session" /\ pc[t] = "add_insert"
    /\ call[t].sid = Some(k)
    /\ ~Registered(k)
    /\ iqr_sessions'[k] = call[t].sess
    /\ pc'[t] = "release"
    /\ call'[t].ret = [kind |-> "ok", val |-> Some(k)]

\* The step is the delete of a remove_session of t given id k
DeletesBinding(t, k) ==
    /\ call[t].op = "remove_session" /\ pc[t] = "rm_del"
    /\ call[t].uuid = Some(k)
    /\ Registered(k)
    /\ iqr_sessions'[k] = NoSession
    /\ pc'[t] = "rm_exit"

\* C22 (steps): a step that changes the registry changes the binding of
\* exactly one id, and is either the insert of an add_session that returns
\* that id, binding it, or the delete of a remove_session given that id,
\* unbinding it; no step of session_uuids, has_session_uuid or get_session
\* and no step of a call that fails changes the registry.
C22_StepPart ==
    /\ iqr_sessions' # iqr_sessions =>
          \E t \in Callers, k \in Keys :
             /\ ChangedKeys = {k}
             /\ AddsBinding(t, k) \/ DeletesBinding(t, k)
    /\ \A t \in Callers :
          ( /\ pc'[t] # pc[t]
            /\ \/ call[t].op \in {"session_uuids", "has_session_uuid",
                                  "get_session"}
               \/ call'[t].ret.kind \notin {"none", "ok"} )
          => iqr_sessions' = iqr_sessions

\* C22 (states): an id is bound to one session or to none; when an
\* add_session is about to return an id, the id is bound to the session
\* given; when a remove_session is about to return normally, the id given is
\* not registered.
C22_StatePart ==
    /\ \A k \in Keys : iqr_sessions[k] \in Sessions \cup {NoSession}
    /\ \A t \in Callers :
          (pc[t] = "release" /\ call[t].ret.kind = "ok") =>
             /\ call[t].op = "add_session" =>
                   iqr_sessions[call[t].ret.val[1]] = call[t].sess
             /\ call[t].op = "remove_session" =>
                   ~Registered(call[t].uuid[1])

\* C22: session_uuids, has_session_uuid and get_session never change the
\* registry; an add_session that succeeds adds exactly one binding and a
\* remove_session that succeeds deletes exactly the binding of the id given,
\* all other bindings staying as they are; so an id is bound to at most one
\* session, from the add_session that returned it to the next successful
\* remove_session of it.
C22_FrameConditions == [](C22_StatePart) /\ [][C22_StepPart]_vars

\* A remove_session is about to return normally, its id is unregistered and
\* the binding of another id is still there.
C22_Witness ==
    \E t \in Callers :
       /\ call[t].op = "remove_session" /\ pc[t] = "release"
       /\ call[t].ret.kind = "ok"
       /\ ~Registered(call[t].uuid[1])
       /\ \E k \in Keys : Registered(k)

============================================================================
